---- MODULE Spec2Model ----
(***************************************************************************)
(* The log consumer of the end-to-end evaluation pipeline                  *)
(* (src/end-to-end/consume_logs.py): parse_log_file folds the lines of a   *)
(* JSONL log into run_info and a list of test cases, save_results adds the *)
(* summary of generate_summary.                                            *)
(*                                                                         *)
(* JSON objects are functions from key strings to values, so that          *)
(* dict.get(k, default) is Get below.  A value whose Python type matters   *)
(* (a timestamp, a frame, a frame's data, a duration) carries its type in  *)
(* the field "kind".  A timestamp string is the sequence of its lexical    *)
(* parts: a date-time part, then any of "Z", a numeric offset, or text     *)
(* that belongs to no ISO-8601 timestamp.                                  *)
(***************************************************************************)
EXTENDS Integers, Sequences, FiniteSets, TLC

VARIABLES
    pc,                 \* where main() is: "parsing", "saved", "raised"
    exc,                \* the exception that ended the program, or "None"
    lines,              \* the lines of the log file read so far
    remaining,          \* the number of lines of the file not yet read
    run_info,           \* results["run_info"]
    test_cases,         \* results["test_cases"]
    current_test_case,  \* <<>> for None, <<tc>> for the open test case (a dict
                        \* no list holds), <<tc, k>> for a dict that is also
                        \* the k-th element of test_cases
    summary,            \* results["summary"], <<>> until save_results
    parent_exists,      \* whether the directory of the output file exists
    runner_pc,          \* where the test runner (run_grun.py) is; "idle": not run
    args,               \* the runner's command line: flush_every, and the names
                        \* of the cases of the --test-cases file
    logger,             \* the runner's JsonlLogger: flush_every, _n, and the
                        \* writes that ended with flush and fsync
    log,                \* the records of the log file the runner writes
    cases,              \* the cases main_async has still to run
    name,               \* the name of the case run_case is running
    received            \* the number of frames the server has sent in the run

\* The state of the consumer and that of the runner.
consumer_vars ==
    <<pc, exc, lines, remaining, run_info, test_cases, current_test_case, summary,
      parent_exists>>
runner_vars == <<runner_pc, args, logger, log, cases, name, received>>
vars == <<consumer_vars, runner_vars>>

\* The largest number of lines of a log file.
MaxLines == 4

-----------------------------------------------------------------------------
(* Values *)

None == "None"
NoneVal == [kind |-> "None"]
Float(n) == [kind |-> "float", v |-> n]
EmptyDict == <<>>

\* dict.get(k, default)
Get(d, k, default) == IF k \in DOMAIN d THEN d[k] ELSE default

\* The lexical parts of a timestamp string.
DT(n) == [t |-> "dt", v |-> n]
Z == [t |-> "Z", v |-> 0]
Off(n) == [t |-> "off", v |-> n]
Junk == [t |-> "junk", v |-> 0]

TsStr(s) == [kind |-> "str", v |-> s]
TsNum(n) == [kind |-> "num", v |-> n]

\* Python's truth value of a timestamp field: None, "" and 0 are false.
Truthy(x) ==
    \/ x.kind = "str" /\ x.v # <<>>
    \/ x.kind = "num" /\ x.v # 0

\* A timestamp handed to fromisoformat as it is.
ReplaceZ_Forgotten(s) == s

\* str.replace("Z", "+00:00"): every Z of the string becomes the offset +00:00.
ReplaceZ(s) == [i \in 1..Len(s) |-> IF s[i].t = "Z" THEN Off(0) ELSE s[i]]

\* datetime.fromisoformat: a date-time part alone is a naive datetime, a
\* date-time part followed by one numeric offset is an aware one; any other
\* string raises ValueError.  (A literal Z never reaches it after ReplaceZ.)
IsoNaive(s) == Len(s) = 1 /\ s[1].t = "dt"
IsoAware(s) == Len(s) = 2 /\ s[1].t = "dt" /\ s[2].t = "off"
IsoOk(s) == IsoNaive(s) \/ IsoAware(s)

\* (end_time - start_time).total_seconds() for two parsed datetimes of the same
\* awareness: aware datetimes are compared as instants.
Instant(s) == IF IsoAware(s) THEN s[1].v - s[2].v ELSE s[1].v

\* A difference taken the wrong way round.
TotalSeconds_Swapped(e, s) == Instant(s) - Instant(e)

TotalSeconds(e, s) == Instant(e) - Instant(s)

-----------------------------------------------------------------------------
(* The functions of consume_logs.py *)

extract_run_header(log_entry) ==
    [timestamp |-> Get(log_entry, "ts", NoneVal),
     endpoint_id |-> Get(log_entry, "endpoint_id", None),
     websocket_url |-> Get(log_entry, "url", None)]

initialize_test_case(log_entry) ==
    [name |-> Get(log_entry, "case", None),
     session_id |-> Get(log_entry, "session", None),
     start_time |-> Get(log_entry, "ts", NoneVal),
     end_time |-> NoneVal,
     duration |-> NoneVal,
     status |-> "running",
     request |-> EmptyDict,
     responses |-> <<>>,
     final_result |-> EmptyDict,
     errors |-> <<>>,
     progress_messages |-> <<>>]

\* The keys extract_request_data keeps out of additional_params.
NamedRequestKeys ==
    {"prompt", "env_id", "session_id", "where", "when", "metricFilters",
     "useVectorSearch"}

extract_request_data(log_entry) ==
    LET request_data == Get(log_entry, "request", EmptyDict)
    IN  [prompt |-> Get(request_data, "prompt", None),
         env_id |-> Get(request_data, "env_id", None),
         where |-> Get(request_data, "where", None),
         when |-> Get(request_data, "when", None),
         metric_filters |-> Get(request_data, "metricFilters", "[]"),
         use_vector_search |-> Get(request_data, "useVectorSearch", "False"),
         additional_params |->
             [k \in (DOMAIN request_data) \ NamedRequestKeys |-> request_data[k]]]

\* frame is the frame's dict.  data = frame.get("data", {}) is None for a JSON
\* null, and None.get raises AttributeError.
extract_success_data(frame) ==
    LET data == Get(frame, "data", [kind |-> "dict", v |-> EmptyDict])
    IN  IF data.kind # "dict"
        THEN [exc |-> "AttributeError", v |-> EmptyDict]
        ELSE [exc |-> None,
              v |-> [message |-> Get(frame, "message", None),
                     timestamp |-> Get(frame, "ts", NoneVal),
                     key_findings |-> Get(data.v, "key_findings", None),
                     trends_anomalies |-> Get(data.v, "trends_anomalies", None),
                     recommendations |-> Get(data.v, "recommendations", None),
                     data_quality |-> Get(data.v, "data_quality", None),
                     executive_summary |-> Get(data.v, "executive_summary", None),
                     key_metrics |-> Get(data.v, "key_metrics", None),
                     alerts |-> Get(data.v, "alerts", None),
                     context |-> Get(data.v, "context", None),
                     scores |-> [relevance |-> Get(data.v, "relevance_score", None),
                                 completeness |-> Get(data.v, "completeness_score", None),
                                 quality |-> Get(data.v, "quality_score", None)],
                     evaluation_notes |-> Get(data.v, "evaluation_notes", None)]]

\* The response entry of lines 118-125.
Response(frame) ==
    [status |-> Get(frame, "status", None),
     message |-> Get(frame, "message", ""),
     timestamp |-> Get(frame, "ts", NoneVal),
     data |-> Get(frame, "data", NoneVal)]

\* Lines 127-134.
ApplyProgress(test_case, frame) ==
    [test_case EXCEPT !.progress_messages =
        Append(@, [message |-> Get(frame, "message", ""),
                   timestamp |-> Get(frame, "ts", NoneVal),
                   data |-> Get(frame, "data", NoneVal)])]

\* A success branch that stores the result and leaves the status as it was.
ApplySuccess_KeepsStatus(test_case, final_result) ==
    [test_case EXCEPT !.final_result = final_result]

\* Lines 136-138; extract_success_data has returned final_result.
ApplySuccess(test_case, final_result) ==
    [test_case EXCEPT !.status = "success", !.final_result = final_result]

\* An error branch that sets the status and records no error entry.
ApplyError_StatusOnly(test_case, frame) == [test_case EXCEPT !.status = "error"]

\* Lines 140-149.
ApplyError(test_case, frame) ==
    [test_case EXCEPT !.status = "error",
                      !.errors =
                          Append(@, [type |-> "execution_error",
                                     message |-> Get(frame, "message", ""),
                                     timestamp |-> Get(frame, "ts", NoneVal),
                                     data |-> Get(frame, "data", NoneVal)])]

\* frame is the value of the record's "frame" key: frame.get raises
\* AttributeError when it is not a dict (line 114).  The result is the
\* exception raised, if any, and the test case after the call: when
\* extract_success_data raises (line 138), the response is appended and the
\* status set (line 137) already.
process_frame_data(test_case, frame) ==
    IF frame.kind # "dict"
    THEN [exc |-> "AttributeError", tc |-> test_case]
    ELSE
    LET frame_status == Get(frame.v, "status", None)
        tc1 == [test_case EXCEPT !.responses = Append(@, Response(frame.v))]
    IN  CASE frame_status = "progress" ->
                [exc |-> None, tc |-> ApplyProgress(tc1, frame.v)]
          [] frame_status = "success" ->
                LET r == extract_success_data(frame.v)
                IN  IF r.exc # None
                    THEN [exc |-> r.exc, tc |-> [tc1 EXCEPT !.status = "success"]]
                    ELSE [exc |-> None, tc |-> ApplySuccess(tc1, r.v)]
          [] frame_status = "error" ->
                [exc |-> None, tc |-> ApplyError(tc1, frame.v)]
          [] OTHER -> [exc |-> None, tc |-> tc1]

\* The duration of finalize_test_case, lines 181-190, in the order the code
\* evaluates it: start_time is replaced and parsed before end_time is touched,
\* only ValueError is caught, a non-string has no replace (AttributeError) and
\* a naive and an aware datetime cannot be subtracted (TypeError).
Duration(start_time_str, end_time_str) ==
    IF ~(Truthy(start_time_str) /\ Truthy(end_time_str))
    THEN [exc |-> None, v |-> NoneVal]
    ELSE IF start_time_str.kind # "str"
    THEN [exc |-> "AttributeError", v |-> NoneVal]
    ELSE IF ~IsoOk(ReplaceZ(start_time_str.v))
    THEN [exc |-> None, v |-> NoneVal]
    ELSE IF end_time_str.kind # "str"
    THEN [exc |-> "AttributeError", v |-> NoneVal]
    ELSE IF ~IsoOk(ReplaceZ(end_time_str.v))
    THEN [exc |-> None, v |-> NoneVal]
    ELSE IF IsoAware(ReplaceZ(start_time_str.v)) # IsoAware(ReplaceZ(end_time_str.v))
    THEN [exc |-> "TypeError", v |-> NoneVal]
    ELSE [exc |-> None,
          v |-> Float(TotalSeconds(ReplaceZ(end_time_str.v),
                                   ReplaceZ(start_time_str.v)))]

\* A finalization without the status default.
FinalStatus_LeavesRunning(test_case) == test_case.status

\* A status default that does not look at the errors recorded.
FinalStatus_IgnoresErrors(test_case) ==
    IF test_case.status = "running" THEN "incomplete" ELSE test_case.status

\* A finalization that makes every case with an error entry an "error".
FinalStatus_ErrorsWin(test_case) ==
    IF test_case.errors # <<>> THEN "error"
    ELSE IF test_case.status = "running" THEN "incomplete"
    ELSE test_case.status

\* Lines 192-196.
FinalStatus(test_case) ==
    IF test_case.status = "running"
    THEN IF test_case.errors # <<>> THEN "error" ELSE "incomplete"
    ELSE test_case.status

finalize_test_case(test_case) ==
    LET d == Duration(test_case.start_time, test_case.end_time)
    IN  IF d.exc # None
        THEN [exc |-> d.exc, tc |-> test_case]
        ELSE [exc |-> None,
              tc |-> [test_case EXCEPT !.duration = d.v,
                                       !.status = FinalStatus(test_case)]]

-----------------------------------------------------------------------------
(* generate_summary *)

RECURSIVE GCD(_, _)
GCD(a, b) == IF b = 0 THEN a ELSE GCD(b, a % b)

Abs(a) == IF a < 0 THEN -a ELSE a

\* Python's a // b on counts: the floor of the quotient.
TrueDiv_Floor(a, b) ==
    IF b = 0
    THEN [kind |-> "ZeroDivisionError"]
    ELSE [kind |-> "number", num |-> a \div b, den |-> 1]

\* Python's a / b: the quotient as a fraction in lowest terms, or
\* ZeroDivisionError.
TrueDiv(a, b) ==
    IF b = 0
    THEN [kind |-> "ZeroDivisionError"]
    ELSE LET g == GCD(Abs(a), Abs(b))
         IN  [kind |-> "number", num |-> a \div g, den |-> b \div g]

\* A number that came from no division.
Number(n) == [kind |-> "number", num |-> n, den |-> 1]

\* len([tc for tc in test_cases if tc["status"] == status])
RECURSIVE CountStatus(_, _)
CountStatus(tcs, status) ==
    IF tcs = <<>> THEN 0
    ELSE (IF Head(tcs).status = status THEN 1 ELSE 0) + CountStatus(Tail(tcs), status)

\* sum([tc.get("duration", 0) for tc in test_cases if tc.get("duration")]):
\* a duration of None or 0.0 is false and left out.
RECURSIVE SumDurations(_)
SumDurations(tcs) ==
    IF tcs = <<>> THEN 0
    ELSE (IF Head(tcs).duration.kind = "float" /\ Head(tcs).duration.v # 0
          THEN Head(tcs).duration.v ELSE 0) + SumDurations(Tail(tcs))

\* The guard of lines 211 and 218.
NonEmpty(total_tests) == total_tests > 0

\* A summary whose average is taken over the test cases that have a duration.
generate_summary_AveragesOverTimed(tcs) ==
    LET total_tests == Len(tcs)
        timed == Cardinality({i \in 1..Len(tcs) : tcs[i].duration.kind = "float"})
        total_duration == SumDurations(tcs)
    IN  [total_tests |-> total_tests,
         successful_tests |-> CountStatus(tcs, "success"),
         failed_tests |-> CountStatus(tcs, "error"),
         incomplete_tests |-> CountStatus(tcs, "incomplete"),
         success_rate |->
             IF NonEmpty(total_tests)
             THEN TrueDiv(CountStatus(tcs, "success"), total_tests)
             ELSE Number(0),
         total_duration |-> total_duration,
         average_duration |->
             IF NonEmpty(timed) THEN TrueDiv(total_duration, timed) ELSE Number(0),
         test_names |-> [i \in 1..Len(tcs) |-> tcs[i].name]]

\* A summary that lists every name once.
RECURSIVE WithoutRepeats(_)
WithoutRepeats(names) ==
    IF names = <<>> THEN <<>>
    ELSE LET front == WithoutRepeats(SubSeq(names, 1, Len(names) - 1))
         IN  IF \E i \in 1..Len(front) : front[i] = names[Len(names)]
             THEN front
             ELSE Append(front, names[Len(names)])

generate_summary_UniqueNames(tcs) ==
    LET total_tests == Len(tcs)
        total_duration == SumDurations(tcs)
    IN  [total_tests |-> total_tests,
         successful_tests |-> CountStatus(tcs, "success"),
         failed_tests |-> CountStatus(tcs, "error"),
         incomplete_tests |-> CountStatus(tcs, "incomplete"),
         success_rate |->
             IF NonEmpty(total_tests)
             THEN TrueDiv(CountStatus(tcs, "success"), total_tests)
             ELSE Number(0),
         total_duration |-> total_duration,
         average_duration |->
             IF NonEmpty(total_tests) THEN TrueDiv(total_duration, total_tests)
             ELSE Number(0),
         test_names |-> WithoutRepeats([i \in 1..Len(tcs) |-> tcs[i].name])]

\* Lines 201-222.
generate_summary(tcs) ==
    LET total_tests == Len(tcs)
        successful_tests == CountStatus(tcs, "success")
        failed_tests == CountStatus(tcs, "error")
        incomplete_tests == CountStatus(tcs, "incomplete")
        total_duration == SumDurations(tcs)
        average_duration ==
            IF NonEmpty(total_tests) THEN TrueDiv(total_duration, total_tests)
            ELSE Number(0)
    IN  [total_tests |-> total_tests,
         successful_tests |-> successful_tests,
         failed_tests |-> failed_tests,
         incomplete_tests |-> incomplete_tests,
         success_rate |->
             IF NonEmpty(total_tests) THEN TrueDiv(successful_tests, total_tests)
             ELSE Number(0),
         total_duration |-> total_duration,
         average_duration |-> average_duration,
         test_names |-> [i \in 1..Len(tcs) |-> tcs[i].name]]

-----------------------------------------------------------------------------
(* The lines of a log file *)

Malformed == [kind |-> "malformed"]
Obj(e) == [kind |-> "dict", v |-> e]
FrameDict(f) == [kind |-> "dict", v |-> f]
DataDict(d) == [kind |-> "dict", v |-> d]

\* The timestamps of the example log: UTC, written with a trailing Z.
T0 == TsStr(<<DT(0), Z>>)
T2 == TsStr(<<DT(2), Z>>)

RunHeaderRec(ts) ==
    Obj([event |-> "run_header", ts |-> ts, endpoint_id |-> "default",
         url |-> "ws://h/p"])
OpeningRec(c, ts) ==
    Obj([event |-> "connection_opening", case |-> c, session |-> "s1",
         url |-> "ws://h/p", ts |-> ts])
ConnectionOpenRec(c) ==
    Obj([event |-> "connection_open", case |-> c, session |-> "s1", ts |-> T0])
SentRequestRec(c) ==
    Obj([event |-> "sent_request", case |-> c, session |-> "s1",
         request |-> [prompt |-> "p", env_id |-> "default", session_id |-> "s1"],
         ts |-> T0])
\* The request of a case whose additional_params are where and top_k.
SentRequestWithParamsRec(c) ==
    Obj([event |-> "sent_request", case |-> c, session |-> "s1",
         request |-> [prompt |-> "p", env_id |-> "default", session_id |-> "s1",
                      where |-> "w", top_k |-> "5"],
         ts |-> T0])
FrameRec(c, f) == Obj([case |-> c, session |-> "s1", frame |-> f])
ClosedRec(c, ts) ==
    Obj([event |-> "connection_closed", case |-> c, session |-> "s1", ts |-> ts])
ClientErrorRec(c) ==
    Obj([event |-> "client_error", case |-> c, session |-> "s1", error |-> "boom",
         ts |-> T2])
ClientTimeoutRec(c) ==
    Obj([event |-> "client_timeout", case |-> c, session |-> "s1", ts |-> T2])

StatusFrame(st) == FrameDict([status |-> st, message |-> "m", ts |-> T2])
SuccessFrame ==
    FrameDict([status |-> "success", message |-> "done", ts |-> T2,
               data |-> DataDict([key_findings |-> "k"])])
BinaryFrame == FrameDict([binary |-> "True", raw_b64 |-> "AA==", ts |-> T2])

\* A success frame without data, and one whose data is the JSON null.
SuccessFrameNoData == FrameDict([status |-> "success", message |-> "done", ts |-> T2])
SuccessFrameNullData ==
    FrameDict([status |-> "success", message |-> "done", ts |-> T2, data |-> NoneVal])

\* A text frame that is JSON and no object: the runner writes the list itself.
ListFrame == [kind |-> "list"]

\* A run_header with neither endpoint_id nor url.
BareRunHeaderRec(ts) == Obj([event |-> "run_header", ts |-> ts])

\* Records with an event and with the case and frame keys of a frame record.
ClosedWithFrameRec(c) ==
    Obj([event |-> "connection_closed", case |-> c, session |-> "s1", ts |-> T2,
         frame |-> StatusFrame("progress")])
ClientErrorWithFrameRec(c) ==
    Obj([event |-> "client_error", case |-> c, session |-> "s1", error |-> "boom",
         ts |-> T2, frame |-> StatusFrame("progress")])

-----------------------------------------------------------------------------
(* parse_log_file: one action per branch of the loop body, lines 17-54 *)

\* The runner is not run.
RunnerIdle ==
    /\ runner_pc = "idle"
    /\ args = <<>>
    /\ logger = <<>>
    /\ log = <<>>
    /\ cases = <<>>
    /\ name = None
    /\ received = 0

\* Line 11 has read a file of n lines; the loop has not begun.  The output
\* goes to the default test_results.json, in the working directory.
Start(n) ==
    /\ pc = "parsing"
    /\ exc = None
    /\ lines = <<>>
    /\ remaining = n
    /\ run_info = EmptyDict
    /\ test_cases = <<>>
    /\ current_test_case = <<>>
    /\ summary = <<>>
    /\ parent_exists = TRUE
    /\ RunnerIdle

Init == \E n \in 0..MaxLines : Start(n)

\* The loop takes the next line of the file.
Reads(line) ==
    /\ pc = "parsing"
    /\ remaining > 0
    /\ remaining' = remaining - 1
    /\ lines' = Append(lines, line)

event_type(log_entry) == Get(log_entry, "event", None)

\* The conditions of the if/elif chain, each with the earlier ones false.
IsRunHeader(e) == event_type(e) = "run_header"
IsOpening(e) == event_type(e) = "connection_opening"
IsSentRequest(e) == event_type(e) = "sent_request"
IsFrame(e) ==
    /\ event_type(e) \notin {"run_header", "connection_opening", "sent_request"}
    /\ "case" \in DOMAIN e
    /\ "frame" \in DOMAIN e
IsClosed(e) == ~IsFrame(e) /\ event_type(e) = "connection_closed"
IsClientError(e) ==
    ~IsFrame(e) /\ event_type(e) \in {"client_error", "client_timeout"}
IsOther(e) ==
    ~(IsRunHeader(e) \/ IsOpening(e) \/ IsSentRequest(e) \/ IsFrame(e)
      \/ IsClosed(e) \/ IsClientError(e))

\* The locals of parse_log_file: results and current_test_case, and the
\* exception that left the function, if any.
Locals ==
    [exc |-> exc, run_info |-> run_info, test_cases |-> test_cases,
     current_test_case |-> current_test_case]

\* The locals after line 15.
InitialLocals ==
    [exc |-> None, run_info |-> EmptyDict, test_cases |-> <<>>,
     current_test_case |-> <<>>]

\* An exception leaves parse_log_file: no results are returned.
Raised(st, e) == [st EXCEPT !.exc = e]

\* A loop that does not catch the JSONDecodeError of json.loads.
OnDecodeError_Raises(st) == Raised(st, "JSONDecodeError")

\* Lines 20-21: continue.
OnDecodeError(st) == st

\* A branch that keeps the first run header of the log.
OnRunHeader_FirstWins(st, log_entry) ==
    IF st.run_info = EmptyDict
    THEN [st EXCEPT !.run_info = extract_run_header(log_entry)]
    ELSE st

\* Lines 25-26.
OnRunHeader(st, log_entry) ==
    [st EXCEPT !.run_info = extract_run_header(log_entry)]

\* An opening that appends the case still open, as it is, before replacing it.
OnOpening_FlushesOpenCase(st, log_entry) ==
    [st EXCEPT !.test_cases =
                   IF st.current_test_case # <<>>
                   THEN Append(@, [st.current_test_case[1] EXCEPT
                                       !.status = "incomplete"])
                   ELSE @,
               !.current_test_case = <<initialize_test_case(log_entry)>>]

\* Lines 28-29.
OnOpening(st, log_entry) ==
    [st EXCEPT !.current_test_case = <<initialize_test_case(log_entry)>>]

\* current_test_case is mutated in place: the dict becomes tc, and with it the
\* element of test_cases that is the same dict, if there is one.
Mutated(st, tc) ==
    [st EXCEPT !.current_test_case[1] = tc,
               !.test_cases = IF Len(st.current_test_case) = 2
                              THEN [@ EXCEPT ![st.current_test_case[2]] = tc]
                              ELSE @]

\* Lines 31-33.
OnSentRequest(st, log_entry) ==
    IF st.current_test_case # <<>>
    THEN Mutated(st, [st.current_test_case[1] EXCEPT
                         !.request = extract_request_data(log_entry)])
    ELSE st

\* A match that does not compare the names.
FrameMatches_AnyCase(current, log_entry) == current # <<>>

\* Line 36.
FrameMatches(current, log_entry) ==
    /\ current # <<>>
    /\ log_entry["case"] = current[1].name

\* Lines 35-37.
OnFrame(st, log_entry) ==
    IF FrameMatches(st.current_test_case, log_entry)
    THEN LET r == process_frame_data(st.current_test_case[1], log_entry["frame"])
         IN  IF r.exc # None
             THEN Raised(Mutated(st, r.tc), r.exc)
             ELSE Mutated(st, r.tc)
    ELSE st

\* Line 43: the list now holds the dict current_test_case refers to.
Appended(st) ==
    [st EXCEPT !.test_cases = Append(@, st.current_test_case[1]),
               !.current_test_case =
                   <<st.current_test_case[1], Len(st.test_cases) + 1>>]

\* A close that goes on referring to the dict it has appended.
Cleared_Forgotten(st) == st

\* Line 44: current_test_case = None.
Cleared(st) == [st EXCEPT !.current_test_case = <<>>]

\* Lines 39-44.
OnClosed(st, log_entry) ==
    IF st.current_test_case # <<>>
    THEN LET r == finalize_test_case(
                     [st.current_test_case[1] EXCEPT
                         !.end_time = Get(log_entry, "ts", NoneVal)])
         IN  IF r.exc # None
             THEN Raised(st, r.exc)
             ELSE Cleared(Appended(Mutated(st, r.tc)))
    ELSE st

\* A branch that opens a case for an error that arrives when none is open.
OnClientError_OpensCase(st, log_entry) ==
    LET entry == [type |-> event_type(log_entry),
                  message |-> Get(log_entry, "error", "Timeout occurred"),
                  timestamp |-> Get(log_entry, "ts", NoneVal)]
    IN  IF st.current_test_case # <<>>
        THEN Mutated(st, [st.current_test_case[1] EXCEPT !.errors = Append(@, entry)])
        ELSE [st EXCEPT !.current_test_case =
                 <<[initialize_test_case(log_entry) EXCEPT !.errors = <<entry>>]>>]

\* A branch that also sets the status of the case to "error".
OnClientError_SetsStatus(st, log_entry) ==
    IF st.current_test_case # <<>>
    THEN Mutated(st, [st.current_test_case[1] EXCEPT
             !.status = "error",
             !.errors =
                 Append(@, [type |-> event_type(log_entry),
                            message |-> Get(log_entry, "error", "Timeout occurred"),
                            timestamp |-> Get(log_entry, "ts", NoneVal)])])
    ELSE st

\* Lines 46-54.
OnClientError(st, log_entry) ==
    IF st.current_test_case # <<>>
    THEN Mutated(st, [st.current_test_case[1] EXCEPT !.errors =
             Append(@, [type |-> event_type(log_entry),
                        message |-> Get(log_entry, "error", "Timeout occurred"),
                        timestamp |-> Get(log_entry, "ts", NoneVal)])])
    ELSE st

\* The body of the loop, lines 18-54, on one line of the file.
LoopBody(st, line) ==
    IF line.kind = "malformed" THEN OnDecodeError(st)
    ELSE IF line.kind # "dict" THEN Raised(st, "AttributeError")
    ELSE IF IsRunHeader(line.v) THEN OnRunHeader(st, line.v)
    ELSE IF IsOpening(line.v) THEN OnOpening(st, line.v)
    ELSE IF IsSentRequest(line.v) THEN OnSentRequest(st, line.v)
    ELSE IF IsFrame(line.v) THEN OnFrame(st, line.v)
    ELSE IF IsClosed(line.v) THEN OnClosed(st, line.v)
    ELSE IF IsClientError(line.v) THEN OnClientError(st, line.v)
    ELSE st

\* The loop body has run: its locals are the new state, and an exception ends
\* the program.
Becomes(st) ==
    /\ pc' = IF st.exc # None THEN "raised" ELSE pc
    /\ exc' = st.exc
    /\ run_info' = st.run_info
    /\ test_cases' = st.test_cases
    /\ current_test_case' = st.current_test_case
    /\ UNCHANGED <<summary, parent_exists, runner_vars>>

\* One pass of the loop over a line that takes the named branch.
Pass(line) == Reads(line) /\ \E st \in {LoopBody(Locals, line)} : Becomes(st)

\* Lines 18-21: json.loads raises JSONDecodeError, the line is skipped.
MalformedLine(line) == line.kind = "malformed" /\ Pass(line)

\* Line 23: a JSON value that is not an object has no get.
NotAnObject(line) == line.kind \notin {"malformed", "dict"} /\ Pass(line)

RunHeader(line) == line.kind = "dict" /\ IsRunHeader(line.v) /\ Pass(line)

ConnectionOpening(line) == line.kind = "dict" /\ IsOpening(line.v) /\ Pass(line)

SentRequest(line) == line.kind = "dict" /\ IsSentRequest(line.v) /\ Pass(line)

Frame(line) == line.kind = "dict" /\ IsFrame(line.v) /\ Pass(line)

ConnectionClosed(line) == line.kind = "dict" /\ IsClosed(line.v) /\ Pass(line)

ClientError(line) == line.kind = "dict" /\ IsClientError(line.v) /\ Pass(line)

\* No branch of the chain takes the record.
OtherRecord(line) == line.kind = "dict" /\ IsOther(line.v) /\ Pass(line)

\* parse_log_file on a whole file: the loop stops at the first exception.
RECURSIVE parse_log_file(_)
parse_log_file(file) ==
    IF file = <<>> THEN InitialLocals
    ELSE LET st == parse_log_file(SubSeq(file, 1, Len(file) - 1))
         IN  IF st.exc # None THEN st ELSE LoopBody(st, file[Len(file)])

\* A save whose summary function reverses the list it is given, in place.
Reversed(tcs) == [i \in 1..Len(tcs) |-> tcs[Len(tcs) + 1 - i]]

save_results_ReversesCases(results) ==
    [run_info |-> results.run_info,
     test_cases |-> Reversed(results.test_cases),
     summary |-> generate_summary(Reversed(results.test_cases))]

\* Line 227: results["summary"] = generate_summary(results).  generate_summary
\* reads results["test_cases"] and assigns to nothing of results, so the dict
\* after the call is the dict before it with the summary added.
save_results(results) ==
    [run_info |-> results.run_info,
     test_cases |-> results.test_cases,
     summary |-> generate_summary(results.test_cases)]

\* main, lines 252-255: the file has no more lines, parse_log_file returns the
\* results (line 56) and save_results adds the summary to them (line 227) and
\* opens the output file for writing (line 230), which raises
\* FileNotFoundError when its directory does not exist.
SaveResults ==
    /\ pc = "parsing"
    /\ remaining = 0
    /\ LET r == save_results([run_info |-> run_info, test_cases |-> test_cases])
           s == r.summary
       IN  IF "ZeroDivisionError" \in {s.success_rate.kind, s.average_duration.kind}
           THEN /\ pc' = "raised"
                /\ exc' = "ZeroDivisionError"
                /\ UNCHANGED <<summary, run_info, test_cases>>
           ELSE /\ pc' = IF parent_exists THEN "saved" ELSE "raised"
                /\ exc' = IF parent_exists THEN exc ELSE "FileNotFoundError"
                /\ summary' = <<s>>
                /\ run_info' = r.run_info
                /\ test_cases' = r.test_cases
    /\ UNCHANGED <<lines, remaining, current_test_case, parent_exists, runner_vars>>

ReadLine(line) ==
    \/ MalformedLine(line)
    \/ NotAnObject(line)
    \/ RunHeader(line)
    \/ ConnectionOpening(line)
    \/ SentRequest(line)
    \/ Frame(line)
    \/ ConnectionClosed(line)
    \/ ClientError(line)
    \/ OtherRecord(line)

\* The case names of the log.
Names == {"A", "B"}

\* The lines of a log the runner writes, a line that is no JSON and a line that
\* is a JSON list.
Lines ==
    {Malformed, [kind |-> "list"], RunHeaderRec(T0), ConnectionOpenRec("A"),
     SentRequestRec("A"), ClosedRec("A", T2), ClientTimeoutRec("A")}
    \cup {OpeningRec(c, T0) : c \in Names}
    \cup {FrameRec("A", StatusFrame(st)) : st \in {"progress", "error"}}
    \cup {FrameRec(c, SuccessFrame) : c \in Names}

Next ==
    \/ \E line \in Lines : ReadLine(line)
    \/ SaveResults

Spec == Init /\ [][Next]_vars

-----------------------------------------------------------------------------
(* The life of single cases: the events of cases A and B alone, in files long
   enough for a request and two frames between the opening and the close. *)

\* The largest number of lines of a log file of SpecCase.
MaxCaseLines == 5

CaseLines ==
    {OpeningRec(c, T0) : c \in Names}
    \cup {SentRequestRec("A"), ClosedRec("A", T2)}
    \cup {FrameRec("A", StatusFrame(st)) : st \in {"progress", "error"}}
    \cup {FrameRec(c, SuccessFrame) : c \in Names}

InitCase == \E n \in 0..MaxCaseLines : Start(n)

NextCase ==
    \/ \E line \in CaseLines :
          \/ ConnectionOpening(line)
          \/ SentRequest(line)
          \/ Frame(line)
          \/ ConnectionClosed(line)
    \/ SaveResults

SpecCase == InitCase /\ [][NextCase]_vars

-----------------------------------------------------------------------------
(* The timestamps of a case: connection_opening and connection_closed records
   of case A with every kind of ts. *)

\* The largest number of lines of a log file of SpecTime.
MaxTimeLines == 2

\* The latest time of day written in a log of SpecTime, in seconds.
MaxTime == 2

\* What follows the date-time part of a timestamp string: nothing (a naive
\* time), Z, the offsets +00:00 and +00:00:01, and text after a Z.
Tails == {<<>>, <<Z>>, <<Off(0)>>, <<Off(1)>>, <<Z, Junk>>}

\* The ts of a record: absent, "", a string that is no timestamp, and the
\* timestamp strings.
TsValues ==
    {NoneVal, TsStr(<<>>), TsStr(<<Junk>>)}
    \cup {TsStr(<<DT(n)>> \o tail) : n \in 0..MaxTime, tail \in Tails}

OpeningWithTs(c, ts) ==
    IF ts = NoneVal
    THEN Obj([event |-> "connection_opening", case |-> c, session |-> "s1",
              url |-> "ws://h/p"])
    ELSE OpeningRec(c, ts)

ClosedWithTs(c, ts) ==
    IF ts = NoneVal
    THEN Obj([event |-> "connection_closed", case |-> c, session |-> "s1"])
    ELSE ClosedRec(c, ts)

TimeLines ==
    {OpeningWithTs("A", ts) : ts \in TsValues}
    \cup {ClosedWithTs("A", ts) : ts \in TsValues}

InitTime == \E n \in 0..MaxTimeLines : Start(n)

NextTime ==
    \/ \E line \in TimeLines :
          \/ ConnectionOpening(line)
          \/ ConnectionClosed(line)
    \/ SaveResults

SpecTime == InitTime /\ [][NextTime]_vars

-----------------------------------------------------------------------------
(* The durations of several cases: cases A and B opened at 00:00:00Z, and
   connection_closed records with no ts, at 00:00:00Z and at 00:00:02Z (the
   consumer closes the open case whatever case the record names). *)

\* The largest number of lines of a log file of SpecSum.
MaxSumLines == 6

SumLines ==
    {OpeningRec(c, T0) : c \in Names}
    \cup {ClosedWithTs("A", ts) : ts \in {NoneVal, T0, T2}}

InitSum == \E n \in 0..MaxSumLines : Start(n)

NextSum ==
    \/ \E line \in SumLines :
          \/ ConnectionOpening(line)
          \/ ConnectionClosed(line)
    \/ SaveResults

SpecSum == InitSum /\ [][NextSum]_vars

-----------------------------------------------------------------------------
(* Records of other shapes: two different run headers, two different requests,
   and records that have an event together with the case and frame keys. *)

\* The largest number of lines of a log file of SpecShape.
MaxShapeLines == 3

ShapeLines ==
    {RunHeaderRec(T0), BareRunHeaderRec(T2), OpeningRec("A", T0), ClosedRec("A", T2),
     SentRequestRec("A"), SentRequestWithParamsRec("A"), ClientErrorRec("A"),
     FrameRec("A", StatusFrame("progress")), ClosedWithFrameRec("A"),
     ClientErrorWithFrameRec("A")}

InitShape == \E n \in 0..MaxShapeLines : Start(n)

NextShape ==
    \/ \E line \in ShapeLines :
          \/ RunHeader(line)
          \/ ConnectionOpening(line)
          \/ SentRequest(line)
          \/ Frame(line)
          \/ ConnectionClosed(line)
          \/ ClientError(line)
    \/ SaveResults

SpecShape == InitShape /\ [][NextShape]_vars

-----------------------------------------------------------------------------
(* The frames and errors of one case: every kind of frame the runner writes
   (status progress, error, success with data, without data and with null
   data, a binary frame without status, a JSON list), client_error and
   client_timeout. *)

\* The largest number of lines of a log file of SpecFrames.
MaxFrameLines == 4

FrameLines ==
    {OpeningRec("A", T0), ClosedRec("A", T2), ClientErrorRec("A"),
     ClientTimeoutRec("A")}
    \cup {FrameRec("A", f) :
             f \in {StatusFrame("progress"), StatusFrame("error"), SuccessFrame,
                    SuccessFrameNoData, SuccessFrameNullData, BinaryFrame,
                    ListFrame}}

InitFrames == \E n \in 0..MaxFrameLines : Start(n)

NextFrames ==
    \/ \E line \in FrameLines :
          \/ ConnectionOpening(line)
          \/ Frame(line)
          \/ ConnectionClosed(line)
          \/ ClientError(line)
    \/ SaveResults

SpecFrames == InitFrames /\ [][NextFrames]_vars

-----------------------------------------------------------------------------
(* The example log: a run header, case T1 opened at 00:00:00Z, a success frame
   with data.key_findings = "k", the case closed at 00:00:02Z.  SpecExample
   reads logs made of these four lines, in any order. *)

\* The largest number of lines of a log file of SpecExample.
MaxExampleLines == 4

ExampleLog ==
    <<RunHeaderRec(T0),
      Obj([event |-> "connection_opening", case |-> "T1", session |-> "s1", ts |-> T0]),
      FrameRec("T1", SuccessFrame),
      ClosedRec("T1", T2)>>

ExampleLines == {ExampleLog[i] : i \in 1..Len(ExampleLog)}

InitExample == \E n \in 0..MaxExampleLines : Start(n)

NextExample ==
    \/ \E line \in ExampleLines :
          \/ RunHeader(line)
          \/ ConnectionOpening(line)
          \/ Frame(line)
          \/ ConnectionClosed(line)
    \/ SaveResults

SpecExample == InitExample /\ [][NextExample]_vars

-----------------------------------------------------------------------------
(* The copy of the consumer in src/base/end-to-end/consume_logs.py.  Its
   parse_log_file, extract_run_header, initialize_test_case,
   process_frame_data, extract_success_data and finalize_test_case are, the
   comments apart, the text of the functions above; extract_request_data,
   generate_summary and save_results are written differently. *)

\* The core_params of the base copy.
core_params ==
    {"prompt", "env_id", "session_id", "where", "when", "metricFilters",
     "useVectorSearch"}

\* An extraction whose core parameters lack session_id.
base_extract_request_data_KeepsSessionId(log_entry) ==
    LET request_data == Get(log_entry, "request", EmptyDict)
        structured_request ==
            [prompt |-> Get(request_data, "prompt", None),
             env_id |-> Get(request_data, "env_id", None),
             where |-> Get(request_data, "where", None),
             when |-> Get(request_data, "when", None),
             metric_filters |-> Get(request_data, "metricFilters", "[]"),
             use_vector_search |-> Get(request_data, "useVectorSearch", "False")]
    IN  [k \in DOMAIN structured_request \cup {"additional_params"} |->
            IF k = "additional_params"
            THEN [j \in (DOMAIN request_data) \ (core_params \ {"session_id"}) |->
                     request_data[j]]
            ELSE structured_request[k]]

\* structured_request is built first, additional_params is added to it.
base_extract_request_data(log_entry) ==
    LET request_data == Get(log_entry, "request", EmptyDict)
        structured_request ==
            [prompt |-> Get(request_data, "prompt", None),
             env_id |-> Get(request_data, "env_id", None),
             where |-> Get(request_data, "where", None),
             when |-> Get(request_data, "when", None),
             metric_filters |-> Get(request_data, "metricFilters", "[]"),
             use_vector_search |-> Get(request_data, "useVectorSearch", "False")]
    IN  [k \in DOMAIN structured_request \cup {"additional_params"} |->
            IF k = "additional_params"
            THEN [j \in (DOMAIN request_data) \ core_params |-> request_data[j]]
            ELSE structured_request[k]]

\* test_durations is built first, total_duration is its sum.
base_generate_summary(tcs) ==
    LET total_tests == Len(tcs)
        successful_tests == CountStatus(tcs, "success")
        failed_tests == CountStatus(tcs, "error")
        incomplete_tests == CountStatus(tcs, "incomplete")
        test_durations ==
            SelectSeq([i \in 1..Len(tcs) |-> tcs[i].duration],
                      LAMBDA d : d.kind = "float" /\ d.v # 0)
        total_duration ==
            SumDurations([i \in 1..Len(test_durations) |->
                             [duration |-> test_durations[i]]])
        average_duration ==
            IF total_tests > 0 THEN TrueDiv(total_duration, total_tests)
            ELSE Number(0)
    IN  [total_tests |-> total_tests,
         successful_tests |-> successful_tests,
         failed_tests |-> failed_tests,
         incomplete_tests |-> incomplete_tests,
         success_rate |->
             IF total_tests > 0 THEN TrueDiv(successful_tests, total_tests)
             ELSE Number(0),
         total_duration |-> total_duration,
         average_duration |-> average_duration,
         test_names |-> [i \in 1..Len(tcs) |-> tcs[i].name]]

\* The sent_request branch of the base copy.
base_OnSentRequest(st, log_entry) ==
    IF st.current_test_case # <<>>
    THEN Mutated(st, [st.current_test_case[1] EXCEPT
                         !.request = base_extract_request_data(log_entry)])
    ELSE st

\* The body of the loop of the base copy.
base_LoopBody(st, line) ==
    IF line.kind = "dict" /\ IsSentRequest(line.v)
    THEN base_OnSentRequest(st, line.v)
    ELSE LoopBody(st, line)

\* parse_log_file of the base copy on a whole file.
RECURSIVE base_parse_log_file(_)
base_parse_log_file(file) ==
    IF file = <<>> THEN InitialLocals
    ELSE LET st == base_parse_log_file(SubSeq(file, 1, Len(file) - 1))
         IN  IF st.exc # None THEN st ELSE base_LoopBody(st, file[Len(file)])

\* main of the base copy on the file read: parse_log_file returns its results
\* and save_results adds the summary, makes the directory of the output file
\* and writes the file.
BaseSaveResults ==
    /\ pc = "parsing"
    /\ remaining = 0
    /\ LET results == base_parse_log_file(lines)
       IN  /\ results.exc = None
           /\ run_info' = results.run_info
           /\ test_cases' = results.test_cases
           /\ summary' = <<base_generate_summary(results.test_cases)>>
    /\ parent_exists' = TRUE
    /\ pc' = "saved"
    /\ UNCHANGED <<exc, lines, remaining, current_test_case, runner_vars>>

\* The largest number of lines of a log file of SpecCopies.
MaxCopyLines == 4

\* Case A with the two requests, a success frame, and a close with and without
\* ts, after a run header.
CopyLines ==
    {RunHeaderRec(T0), OpeningRec("A", T0), SentRequestRec("A"),
     SentRequestWithParamsRec("A"), FrameRec("A", SuccessFrame), ClosedRec("A", T2),
     ClosedWithTs("A", NoneVal)}

\* The output file is given with --output: its directory exists or not.
InitCopies ==
    \E n \in 0..MaxCopyLines :
        /\ pc = "parsing"
        /\ exc = None
        /\ lines = <<>>
        /\ remaining = n
        /\ run_info = EmptyDict
        /\ test_cases = <<>>
        /\ current_test_case = <<>>
        /\ summary = <<>>
        /\ parent_exists \in BOOLEAN
        /\ RunnerIdle

\* Either copy saves the results of the file.
NextCopies ==
    \/ \E line \in CopyLines :
          \/ RunHeader(line)
          \/ ConnectionOpening(line)
          \/ SentRequest(line)
          \/ Frame(line)
          \/ ConnectionClosed(line)
    \/ SaveResults
    \/ BaseSaveResults

SpecCopies == InitCopies /\ [][NextCopies]_vars

-----------------------------------------------------------------------------
(* The test runner, run_grun.py: main_async makes the logger, writes the run
   header and runs the cases one after the other; run_case writes the events
   and the frames of one case.  The server and the network are the
   environment: a connection or a send or a receive may raise, a receive may
   time out, and a frame is binary or text. *)

\* The flush_every of a JsonlLogger that is given none (line 39).
DefaultFlushEvery == 5

\* The largest number of cases of a test cases file.
MaxCases == 2

\* The largest number of frames the server sends in a run.
MaxFrames == 1

\* The largest --flush-every of a command line, the default apart.
MaxFlushEvery == 1

\* The names of the cases of a test cases file, in order.
CaseNames == <<"A", "B", "C", "D">>

\* ts(), lines 15-16: the time of a write, UTC with the offset +00:00.  The clock of the
\* model stands still.
ts_now == TsStr(<<DT(0), Off(0)>>)

\* The record with the time of its write.
WithTs(rec, t) == Obj([rec.v EXCEPT !["ts"] = t])

\* The logger after __init__, lines 39-45: _n is n.
JsonlLogger(flush_every) == [flush_every |-> flush_every, n |-> 0, fsyncs |-> {}]

\* Lines 168-170: the logger is made from the path alone.
setup_log(runs_dir) == JsonlLogger(DefaultFlushEvery)

\* JsonlLogger.write, lines 47-53, on the logger: the write is counted, and
\* ends with flush and fsync when the count is a multiple of flush_every.
write(lg, obj) ==
    LET k == lg.n + 1
    IN  [lg EXCEPT !.n = k,
                   !.fsyncs = IF k % lg.flush_every = 0 THEN @ \cup {k} ELSE @]

\* logger.write(obj): the record is appended to the file.
Writes(obj) ==
    /\ log' = Append(log, obj)
    /\ logger' = write(logger, obj)

\* The JSON values that cannot be hashed, lists and objects, as they are
\* written: the empty list stands for them.
Unhashable == {"[]"}

\* Lines 34-35: the membership test of a set hashes the status, and a status
\* that is a list or an object raises TypeError.
should_close_raises(frame) ==
    frame.kind = "dict" /\ Get(frame.v, "status", None) \in Unhashable

\* Lines 34-35, when the test returns.
should_close(frame) ==
    frame.kind = "dict" /\ Get(frame.v, "status", None) \in {"success", "error"}

\* A text frame that is no JSON is logged as {"raw": raw, "ts": ts()}.
RawFrame == FrameDict([raw |-> "text", ts |-> ts_now])

\* A JSON object the server sends without ts.
BareProgressFrame == FrameDict([status |-> "progress", message |-> "m"])

\* A JSON object whose status is a list.
ListStatusFrame == FrameDict([status |-> "[]", message |-> "m", ts |-> T2])

\* The text frames of the server: text that is no JSON, and JSON text.
NotJson == [kind |-> "text"]
Json(v) == [kind |-> "json", v |-> v]
Texts ==
    {NotJson, Json(ListFrame), Json(BareProgressFrame), Json(StatusFrame("error")),
     Json(SuccessFrame), Json(ListStatusFrame)}

\* Lines 131-136: the payload logged for a text frame.
Payload(raw) ==
    IF raw.kind = "text" THEN RawFrame
    ELSE IF raw.v.kind = "dict" /\ "ts" \notin DOMAIN raw.v.v
    THEN FrameDict([k \in DOMAIN raw.v.v \cup {"ts"} |->
                       IF k = "ts" THEN ts_now ELSE raw.v.v[k]])
    ELSE raw.v

\* The consumer is not run.
ConsumerIdle ==
    /\ pc = "idle"
    /\ exc = None
    /\ lines = <<>>
    /\ remaining = 0
    /\ run_info = EmptyDict
    /\ test_cases = <<>>
    /\ current_test_case = <<>>
    /\ summary = <<>>
    /\ parent_exists = TRUE

\* parse_args has returned: --flush-every N, and a test cases file of k cases.
InitRunner ==
    /\ ConsumerIdle
    /\ runner_pc = "start"
    /\ \E k \in 0..MaxCases : \E N \in (1..MaxFlushEvery) \cup {DefaultFlushEvery} :
          args = [flush_every |-> N, test_cases |-> SubSeq(CaseNames, 1, k)]
    /\ logger = <<>>
    /\ log = <<>>
    /\ cases = <<>>
    /\ name = None
    /\ received = 0

\* main_async, lines 188-198.
MainStart ==
    /\ runner_pc = "start"
    /\ logger' = write(setup_log(args), RunHeaderRec(ts_now))
    /\ log' = <<RunHeaderRec(ts_now)>>
    /\ cases' = args.test_cases
    /\ runner_pc' = "loop"
    /\ UNCHANGED <<args, name, received, consumer_vars>>

\* Lines 199-200 and 65-77: the next case is begun.
StartCase ==
    /\ runner_pc = "loop"
    /\ cases # <<>>
    /\ name' = Head(cases)
    /\ cases' = Tail(cases)
    /\ Writes(OpeningRec(Head(cases), ts_now))
    /\ runner_pc' = "connecting"
    /\ UNCHANGED <<args, received, consumer_vars>>

\* Line 203: no case is left.
Finish ==
    /\ runner_pc = "loop"
    /\ cases = <<>>
    /\ runner_pc' = "done"
    /\ UNCHANGED <<args, logger, log, cases, name, received, consumer_vars>>

\* Lines 79-89: the connection is made.
Connected ==
    /\ runner_pc = "connecting"
    /\ Writes(WithTs(ConnectionOpenRec(name), ts_now))
    /\ runner_pc' = "sending"
    /\ UNCHANGED <<args, cases, name, received, consumer_vars>>

\* Lines 90-100: the request is sent.
Sent ==
    /\ runner_pc = "sending"
    /\ Writes(WithTs(SentRequestRec(name), ts_now))
    /\ runner_pc' = "receiving"
    /\ UNCHANGED <<args, cases, name, received, consumer_vars>>

\* An exception that goes to no handler and ends the run.
Handler_None == "done"

\* Where an exception raised in the try block of run_case goes: line 143.
Handler == "except"

\* websocket_connect, ws.send or ws.recv raises.
Raises ==
    /\ runner_pc \in {"connecting", "sending", "receiving"}
    /\ runner_pc' = Handler
    /\ UNCHANGED <<args, logger, log, cases, name, received, consumer_vars>>

\* Lines 104-114: no frame within recv_timeout.
RecvTimeout ==
    /\ runner_pc = "receiving"
    /\ Writes(WithTs(ClientTimeoutRec(name), ts_now))
    /\ runner_pc' = "finally"
    /\ UNCHANGED <<args, cases, name, received, consumer_vars>>

\* Lines 116-128: a binary frame.
RecvBinary ==
    /\ runner_pc = "receiving"
    /\ received < MaxFrames
    /\ received' = received + 1
    /\ Writes(FrameRec(name, BinaryFrame))
    /\ runner_pc' = "receiving"
    /\ UNCHANGED <<args, cases, name, consumer_vars>>

\* Lines 130-141: a text frame.
RecvText(raw) ==
    /\ runner_pc = "receiving"
    /\ received < MaxFrames
    /\ received' = received + 1
    /\ Writes(FrameRec(name, Payload(raw)))
    /\ runner_pc' = IF should_close_raises(Payload(raw)) THEN Handler
                     ELSE IF should_close(Payload(raw)) THEN "finally"
                     ELSE "receiving"
    /\ UNCHANGED <<args, cases, name, consumer_vars>>

\* Lines 143-152.
WriteClientError ==
    /\ runner_pc = "except"
    /\ Writes(WithTs(ClientErrorRec(name), ts_now))
    /\ runner_pc' = "finally"
    /\ UNCHANGED <<args, cases, name, received, consumer_vars>>

\* Lines 153-161: the finally block.
WriteClosed ==
    /\ runner_pc = "finally"
    /\ Writes(ClosedRec(name, ts_now))
    /\ runner_pc' = "loop"
    /\ name' = None
    /\ UNCHANGED <<args, cases, received, consumer_vars>>

NextRunner ==
    \/ MainStart
    \/ StartCase
    \/ Finish
    \/ Connected
    \/ Sent
    \/ Raises
    \/ RecvTimeout
    \/ RecvBinary
    \/ \E raw \in Texts : RecvText(raw)
    \/ WriteClientError
    \/ WriteClosed

SpecRunner == InitRunner /\ [][NextRunner]_vars

\* The runner goes on as long as it can: every await returns or raises.
FairSpecRunner == SpecRunner /\ WF_vars(NextRunner)

-----------------------------------------------------------------------------
(* What the claims say of the lines read *)

Last(seq) == seq[Len(seq)]
Suffix(seq, k) == SubSeq(seq, k + 1, Len(seq))

HasEvent(line, ev) == line.kind = "dict" /\ Get(line.v, "event", None) = ev

\* A frame record of case X as the runner writes it: case and frame, no event.
IsFrameRecordFor(line, X) ==
    /\ line.kind = "dict"
    /\ "event" \notin DOMAIN line.v
    /\ "case" \in DOMAIN line.v
    /\ "frame" \in DOMAIN line.v
    /\ line.v["case"] = X

FrameStatusOf(line) ==
    IF line.v["frame"].kind = "dict" THEN Get(line.v["frame"].v, "status", None)
    ELSE None

\* connection_opening(X), sent_request, one or more frames of X of which the
\* last has status "success", connection_closed.
IsSuccessRun(ls, X) ==
    /\ Len(ls) >= 4
    /\ HasEvent(ls[1], "connection_opening")
    /\ Get(ls[1].v, "case", None) = X
    /\ HasEvent(ls[2], "sent_request")
    /\ \A i \in 3..(Len(ls) - 1) : IsFrameRecordFor(ls[i], X)
    /\ FrameStatusOf(ls[Len(ls) - 1]) = "success"
    /\ HasEvent(ls[Len(ls)], "connection_closed")

\* C1: when the lines read end with connection_opening(X), sent_request, one or
\* more frame records of X of which the last has status "success", and
\* connection_closed, the last test case of test_cases is named X, has status
\* "success" and a non-empty final_result; when these lines are the whole log
\* it is the only test case.
C1_SuccessRunYieldsOneCase ==
    \A X \in Names : \A k \in 0..Len(lines) :
        IsSuccessRun(Suffix(lines, k), X) =>
            /\ pc # "raised"
            /\ test_cases # <<>>
            /\ Last(test_cases).name = X
            /\ Last(test_cases).status = "success"
            /\ Last(test_cases).final_result # EmptyDict
            /\ (k = 0 => Len(test_cases) = 1)

\* A whole log of five lines, a progress frame before the success frame, saved.
C1_Witness ==
    /\ pc = "saved"
    /\ Len(lines) = 5
    /\ IsSuccessRun(lines, "A")
    /\ FrameStatusOf(lines[3]) = "progress"
    /\ Len(test_cases) = 1
    /\ Len(test_cases[1].responses) = 2

\* The step reads a record with this event.
ReadsEvent(ev) ==
    /\ Len(lines') = Len(lines) + 1
    /\ HasEvent(Last(lines'), ev)

\* No frame with status "success" or "error" is among the responses.
NoTerminalFrame(test_case) ==
    \A i \in 1..Len(test_case.responses) :
        test_case.responses[i].status \notin {"success", "error"}

\* C2: when connection_closed is read while a case is open, its status is
\* still "running" exactly if no success or error frame was applied to it, and
\* then the case is appended with status "error" if it has an error entry and
\* with status "incomplete" if it has none.
C2_RunningCloseStatus ==
    [][(ReadsEvent("connection_closed") /\ current_test_case # <<>>) =>
          LET tc == current_test_case[1]
          IN  /\ tc.status = "running" <=> NoTerminalFrame(tc)
              /\ tc.status = "running" =>
                    /\ pc' = "parsing"
                    /\ Len(test_cases') = Len(test_cases) + 1
                    /\ Last(test_cases').status =
                          IF tc.errors # <<>> THEN "error" ELSE "incomplete"]_vars

\* A case closed after a client_timeout and no frame: status "error".
C2_Witness ==
    /\ Len(lines) = 3
    /\ HasEvent(lines[1], "connection_opening")
    /\ HasEvent(lines[2], "client_timeout")
    /\ HasEvent(lines[3], "connection_closed")
    /\ Len(test_cases) = 1
    /\ test_cases[1].status = "error"
    /\ test_cases[1].responses = <<>>

\* The lines that parse as JSON, in order.
IsJson(line) == line.kind # "malformed"
WellFormed(ls) == SelectSeq(ls, IsJson)

\* C3: reading a line that fails to parse as JSON raises nothing, and after
\* any lines read the run_info, the test cases and the open case are those
\* parse_log_file has on the same lines with the malformed ones removed.
C3_MalformedLinesSkipped ==
    /\ (lines # <<>> /\ Last(lines).kind = "malformed") => pc # "raised"
    /\ Locals = parse_log_file(WellFormed(lines))

\* A log whose last line is truncated, read to the end and saved with the
\* test case closed before it.
C3_Witness ==
    /\ pc = "saved"
    /\ Len(lines) >= 3
    /\ Last(lines).kind = "malformed"
    /\ Len(test_cases) = 1
    /\ summary[1].total_tests = 1

\* The cases closed in the lines ls, read with the case `open` open (<<>>: none;
\* else its name and the number of its frame records since it was opened):
\* connection_opening opens a case in place of the open one, a frame record of
\* the open case counts, connection_closed closes the open case.
RECURSIVE ClosedCases(_, _)
ClosedCases(ls, open) ==
    IF ls = <<>> THEN <<>>
    ELSE IF HasEvent(Head(ls), "connection_opening")
    THEN ClosedCases(Tail(ls), <<[name |-> Head(ls).v["case"], frames |-> 0]>>)
    ELSE IF open # <<>> /\ IsFrameRecordFor(Head(ls), open[1].name)
    THEN ClosedCases(Tail(ls), <<[open[1] EXCEPT !.frames = @ + 1]>>)
    ELSE IF open # <<>> /\ HasEvent(Head(ls), "connection_closed")
    THEN <<open[1]>> \o ClosedCases(Tail(ls), <<>>)
    ELSE ClosedCases(Tail(ls), open)

\* The case left open by the lines ls, read with the case `open` open.
RECURSIVE OpenCase(_, _)
OpenCase(ls, open) ==
    IF ls = <<>> THEN open
    ELSE IF HasEvent(Head(ls), "connection_opening")
    THEN OpenCase(Tail(ls), <<Head(ls).v["case"]>>)
    ELSE IF HasEvent(Head(ls), "connection_closed")
    THEN OpenCase(Tail(ls), <<>>)
    ELSE OpenCase(Tail(ls), open)

\* The number of records with this event among the lines.
RECURSIVE CountEvent(_, _)
CountEvent(ls, ev) ==
    IF ls = <<>> THEN 0
    ELSE (IF HasEvent(Head(ls), ev) THEN 1 ELSE 0) + CountEvent(Tail(ls), ev)

\* C4: at most one case is open, and test_cases holds exactly the cases that
\* were open when a connection_closed was read, in that order, each with the
\* frames read since its own opening: a case replaced by a later
\* connection_opening, or open when the log ends, is not in test_cases.
C4_OnlyClosedCasesAppear ==
    LET closed == ClosedCases(lines, <<>>)
    IN  /\ Len(current_test_case) <= 1
        /\ (current_test_case # <<>>) <=> (OpenCase(lines, <<>>) # <<>>)
        /\ Len(test_cases) = Len(closed)
        /\ \A i \in 1..Len(closed) :
              /\ test_cases[i].name = closed[i].name
              /\ Len(test_cases[i].responses) = closed[i].frames
        /\ Len(test_cases) + Len(current_test_case)
              <= CountEvent(lines, "connection_opening")

\* A with a frame is replaced by B, B is closed, A is opened again and the log
\* ends: the output holds B alone.
C4_Witness ==
    /\ pc = "saved"
    /\ Len(lines) = 5
    /\ HasEvent(lines[1], "connection_opening")
    /\ lines[1].v["case"] = "A"
    /\ IsFrameRecordFor(lines[2], "A")
    /\ HasEvent(lines[3], "connection_opening")
    /\ HasEvent(lines[4], "connection_closed")
    /\ HasEvent(lines[5], "connection_opening")
    /\ current_test_case # <<>>
    /\ Len(test_cases) = 1
    /\ test_cases[1].name = "B"
    /\ test_cases[1].responses = <<>>
    /\ summary[1].test_names = <<"B">>

\* The step reads a frame record of a case other than the open one.
ReadsFrameOfOtherCase ==
    /\ Len(lines') = Len(lines) + 1
    /\ current_test_case # <<>>
    /\ \E X \in Names \ {current_test_case[1].name} :
          IsFrameRecordFor(Last(lines'), X)

\* C5: reading a frame record whose case is not the name of the open case
\* changes neither the open case nor any test case of test_cases (responses,
\* status, errors, progress_messages and final_result included), nor run_info.
C5_FrameOfOtherCaseIgnored ==
    [][ReadsFrameOfOtherCase =>
          /\ pc' = "parsing"
          /\ UNCHANGED <<run_info, test_cases, current_test_case>>]_vars

\* A success frame of B read while A is open with one response: A still runs.
C5_Witness ==
    /\ Len(lines) = 3
    /\ IsFrameRecordFor(lines[3], "B")
    /\ FrameStatusOf(lines[3]) = "success"
    /\ current_test_case # <<>>
    /\ current_test_case[1].name = "A"
    /\ Len(current_test_case[1].responses) = 1
    /\ current_test_case[1].status = "running"

IsPrefix(s, t) == Len(s) <= Len(t) /\ \A i \in 1..Len(s) : s[i] = t[i]

\* C6: no step changes a test case that is in test_cases: whatever is read
\* after the connection_closed that appended it, and when the summary is
\* made, test_cases only grows at its end.
C6_AppendedCasesImmutable ==
    [][IsPrefix(test_cases, test_cases')]_vars

\* A is closed without a frame; a success frame of A and another
\* connection_closed follow: the test case is as it was appended.
C6_Witness ==
    /\ Len(lines) = 4
    /\ HasEvent(lines[1], "connection_opening")
    /\ HasEvent(lines[2], "connection_closed")
    /\ IsFrameRecordFor(lines[3], lines[1].v["case"])
    /\ FrameStatusOf(lines[3]) = "success"
    /\ HasEvent(lines[4], "connection_closed")
    /\ Len(test_cases) = 1
    /\ test_cases[1].status = "incomplete"
    /\ test_cases[1].responses = <<>>

\* C7: every test case of test_cases has status "success", "error" or
\* "incomplete"; "running" is the status of an open case only, whose status is
\* "running", "success" or "error".
C7_OutputStatusTerminal ==
    /\ \A i \in 1..Len(test_cases) :
          test_cases[i].status \in {"success", "error", "incomplete"}
    /\ current_test_case # <<>> =>
          current_test_case[1].status \in {"running", "success", "error"}

\* A case closed after an error frame is in the output while the next case is
\* open and running.
C7_Witness ==
    /\ Len(test_cases) = 1
    /\ test_cases[1].status = "error"
    /\ Len(test_cases[1].responses) = 1
    /\ current_test_case # <<>>
    /\ current_test_case[1].status = "running"

-----------------------------------------------------------------------------
(* What the claims say of timestamps *)

\* The timestamp is absent: no ts, or the empty string.
TsAbsent(ts) == ts = NoneVal \/ ts = TsStr(<<>>)

\* The timestamp is an ISO-8601 string, the trailing Z being the offset +00:00:
\* a date-time part, alone or followed by Z or by one offset.
TsIsoNaive(ts) == ts.kind = "str" /\ Len(ts.v) = 1 /\ ts.v[1].t = "dt"
TsIsoAware(ts) ==
    ts.kind = "str" /\ Len(ts.v) = 2 /\ ts.v[1].t = "dt" /\ ts.v[2].t \in {"Z", "off"}
TsIso(ts) == TsIsoNaive(ts) \/ TsIsoAware(ts)

\* The two timestamps can be subtracted: both carry an offset, or neither.
Subtractable(start, end) ==
    \/ TsIsoNaive(start) /\ TsIsoNaive(end)
    \/ TsIsoAware(start) /\ TsIsoAware(end)

\* The time a timestamp denotes, in seconds: its date-time part less its
\* offset from UTC (none for Z and for a naive time).
TsInstant(ts) ==
    IF TsIsoAware(ts) /\ ts.v[2].t = "off" THEN ts.v[1].v - ts.v[2].v ELSE ts.v[1].v

\* The state in which the last line was read.
BeforeLast == parse_log_file(SubSeq(lines, 1, Len(lines) - 1))

\* C8: reading connection_closed with a case open never raises: the case is
\* appended to test_cases, with duration null whenever start_time or end_time
\* is absent, is no ISO-8601 timestamp, or the two cannot be subtracted.
C8_FinalizationNeverRaises ==
    (/\ lines # <<>>
     /\ HasEvent(Last(lines), "connection_closed")
     /\ BeforeLast.current_test_case # <<>>) =>
        LET start == BeforeLast.current_test_case[1].start_time
            end == Get(Last(lines).v, "ts", NoneVal)
        IN  /\ pc # "raised"
            /\ Len(test_cases) = Len(BeforeLast.test_cases) + 1
            /\ (TsAbsent(start) \/ TsAbsent(end) \/ ~TsIso(start) \/ ~TsIso(end)
                \/ ~Subtractable(start, end))
                  => Last(test_cases).duration = NoneVal

\* C9: a test case of test_cases whose start_time and end_time are ISO-8601
\* timestamps that can be subtracted has the duration end_time - start_time in
\* seconds, a trailing Z counting as the offset +00:00.
C9_DurationIsDifference ==
    \A i \in 1..Len(test_cases) :
        LET tc == test_cases[i]
        IN  (TsIso(tc.start_time) /\ TsIso(tc.end_time)
             /\ Subtractable(tc.start_time, tc.end_time)) =>
                tc.duration = Float(TsInstant(tc.end_time) - TsInstant(tc.start_time))

\* Opened at 00:00:00Z and closed at 00:00:02+00:00: two seconds.
C9_Witness ==
    /\ Len(test_cases) = 1
    /\ test_cases[1].start_time = TsStr(<<DT(0), Z>>)
    /\ test_cases[1].end_time = TsStr(<<DT(2), Off(0)>>)
    /\ test_cases[1].duration = Float(2)

-----------------------------------------------------------------------------
(* What the claims say of the summary *)

\* The test cases with this status.
WithStatus(status) == {i \in 1..Len(test_cases) : test_cases[i].status = status}

\* C10: the summary saved has success_rate = successful_tests / total_tests
\* when there is a test case, where successful_tests is the number of test
\* cases with status "success" and total_tests the number of test cases, and
\* success_rate = 0 when there is none; making it never divides by zero.
C10_SuccessRate ==
    /\ exc # "ZeroDivisionError"
    /\ pc = "saved" =>
          LET s == summary[1]
          IN  /\ s.total_tests = Len(test_cases)
              /\ s.successful_tests = Cardinality(WithStatus("success"))
              /\ s.success_rate.kind = "number"
              /\ s.success_rate.den > 0
              /\ s.success_rate.num * s.total_tests
                    = s.successful_tests * s.success_rate.den
              /\ s.total_tests = 0 => s.success_rate.num = 0

\* One of two test cases succeeded: the rate is 1/2.
C10_Witness ==
    /\ pc = "saved"
    /\ summary[1].total_tests = 2
    /\ summary[1].successful_tests = 1
    /\ summary[1].success_rate = [kind |-> "number", num |-> 1, den |-> 2]

\* The sum of the durations of the test cases tcs that are not null.
RECURSIVE SumOfDurations(_)
SumOfDurations(tcs) ==
    IF tcs = <<>> THEN 0
    ELSE (IF Head(tcs).duration # NoneVal THEN Head(tcs).duration.v ELSE 0)
         + SumOfDurations(Tail(tcs))

-----------------------------------------------------------------------------
(* What the claims say of the dispatch *)

\* The events that imply an open case.
CaseEvents == {"sent_request", "connection_closed", "client_error", "client_timeout"}

\* The record is of an open case: one of these events, or a frame record.
ImpliesOpenCase(line) ==
    /\ line.kind = "dict"
    /\ \/ Get(line.v, "event", None) \in CaseEvents
       \/ \E X \in Names : IsFrameRecordFor(line, X)

\* C13: a sent_request, frame, connection_closed, client_error or
\* client_timeout record read when no case is open raises nothing and leaves
\* run_info and test_cases as they were and no case open; connection_closed
\* then appends nothing.
C13_IgnoredWithoutOpenCase ==
    (/\ lines # <<>>
     /\ ImpliesOpenCase(Last(lines))
     /\ BeforeLast.current_test_case = <<>>) =>
        /\ pc # "raised"
        /\ run_info = BeforeLast.run_info
        /\ test_cases = BeforeLast.test_cases
        /\ current_test_case = <<>>

\* After a case was opened and closed, a client_timeout and a sent_request are
\* read: the output holds the one test case, with no error and no request.
C13_Witness ==
    /\ pc = "saved"
    /\ Len(lines) = 4
    /\ HasEvent(lines[1], "connection_opening")
    /\ HasEvent(lines[2], "connection_closed")
    /\ HasEvent(lines[3], "client_timeout")
    /\ HasEvent(lines[4], "sent_request")
    /\ Len(test_cases) = 1
    /\ test_cases[1].errors = <<>>
    /\ test_cases[1].request = EmptyDict
    /\ current_test_case = <<>>

\* The events of the dispatch table.
TableEvents == {"run_header", "connection_opening"} \cup CaseEvents

\* The line has the shape of a row of the dispatch table: an object with one
\* of its events, or an object with case and frame and no event.
IsTableRow(line) ==
    /\ line.kind = "dict"
    /\ \/ Get(line.v, "event", None) \in TableEvents
       \/ /\ "event" \notin DOMAIN line.v
          /\ "case" \in DOMAIN line.v
          /\ "frame" \in DOMAIN line.v

\* C14: reading a line that parses as JSON and has not the shape of a row of
\* the dispatch table (an unknown event, an object with no event and not both
\* case and frame, a JSON value that is no object) raises nothing and changes
\* neither run_info, nor test_cases, nor the open case.
C14_UnknownShapesIgnored ==
    (/\ lines # <<>>
     /\ IsJson(Last(lines))
     /\ ~IsTableRow(Last(lines))) =>
        /\ pc # "raised"
        /\ Locals = BeforeLast

\* The record carries an event key.
HasEventKey(line) == line.kind = "dict" /\ "event" \in DOMAIN line.v

\* C15: a record with an event key is dispatched by its event, also when it
\* has case and frame keys: read with a case open, it is never taken for a
\* frame (no response is added), connection_closed appends the open case and
\* leaves none open, client_error and client_timeout add one error entry.
C15_EventDecidesDispatch ==
    (/\ lines # <<>>
     /\ HasEventKey(Last(lines))
     /\ BeforeLast.current_test_case # <<>>) =>
        LET before == BeforeLast.current_test_case[1]
            ev == Last(lines).v["event"]
        IN  /\ pc # "raised"
            /\ ev = "connection_closed" =>
                  /\ current_test_case = <<>>
                  /\ Len(test_cases) = Len(BeforeLast.test_cases) + 1
                  /\ Last(test_cases).responses = before.responses
            /\ ev \in {"client_error", "client_timeout"} =>
                  /\ current_test_case # <<>>
                  /\ current_test_case[1].responses = before.responses
                  /\ Len(current_test_case[1].errors) = Len(before.errors) + 1
                  /\ Last(current_test_case[1].errors).type = ev

\* The last run_header record of the lines, if any.
RECURSIVE LastRunHeader(_)
LastRunHeader(ls) ==
    IF ls = <<>> THEN <<>>
    ELSE IF HasEvent(Last(ls), "run_header") THEN <<Last(ls).v>>
    ELSE LastRunHeader(SubSeq(ls, 1, Len(ls) - 1))

\* The field of a record, null when the record has not got it.
FieldOrNull(rec, k, null) == IF k \in DOMAIN rec THEN rec[k] ELSE null

\* C16: after any lines read, run_info is the empty map when no run_header was
\* read, and else holds the ts, endpoint_id and url of the last run_header
\* read (null where that record lacks the field): a later run_header replaces
\* an earlier one, and no other record changes run_info.
C16_LastRunHeaderWins ==
    LET h == LastRunHeader(lines)
    IN  IF h = <<>>
        THEN run_info = EmptyDict
        ELSE /\ DOMAIN run_info = {"timestamp", "endpoint_id", "websocket_url"}
             /\ run_info.timestamp = FieldOrNull(h[1], "ts", NoneVal)
             /\ run_info.endpoint_id = FieldOrNull(h[1], "endpoint_id", None)
             /\ run_info.websocket_url = FieldOrNull(h[1], "url", None)

\* A full run_header, then one with a ts only, then a connection_opening: the
\* run_info saved is that of the second.
C16_Witness ==
    /\ pc = "saved"
    /\ Len(lines) = 3
    /\ lines[1] = RunHeaderRec(T0)
    /\ lines[2] = BareRunHeaderRec(T2)
    /\ HasEvent(lines[3], "connection_opening")
    /\ run_info = [timestamp |-> T2, endpoint_id |-> None, websocket_url |-> None]

-----------------------------------------------------------------------------
(* What the claims say of frames, requests and errors *)

\* The last line read is a frame record of the case that was open.
ReadFrameOfOpenCase ==
    /\ lines # <<>>
    /\ BeforeLast.current_test_case # <<>>
    /\ IsFrameRecordFor(Last(lines), BeforeLast.current_test_case[1].name)

\* The keys of final_result, and those of its scores.
ResultKeys ==
    {"message", "timestamp", "key_findings", "trends_anomalies", "recommendations",
     "data_quality", "executive_summary", "key_metrics", "alerts", "context",
     "scores", "evaluation_notes"}
ScoreKeys == {"relevance", "completeness", "quality"}

\* The key of the frame's data that a key of final_result is read from.
DataKey(k) ==
    CASE k = "relevance" -> "relevance_score"
      [] k = "completeness" -> "completeness_score"
      [] k = "quality" -> "quality_score"
      [] OTHER -> k

\* The data of a frame as a map: empty when data is absent or null.
DataOf(frame) ==
    IF "data" \in DOMAIN frame /\ frame["data"].kind = "dict" THEN frame["data"].v
    ELSE <<>>

\* C17: reading a frame record of the open case whose frame has status
\* "success" raises nothing, and final_result then has every key of the fixed
\* set, scores its three keys, each with the value of the frame's data and
\* null where the data lacks it or is itself absent or null.
C17_FinalResultHasEveryKey ==
    (/\ ReadFrameOfOpenCase
     /\ FrameStatusOf(Last(lines)) = "success") =>
        LET frame == Last(lines).v["frame"].v
        IN  /\ pc # "raised"
            /\ current_test_case # <<>>
            /\ LET fr == current_test_case[1].final_result
               IN  /\ DOMAIN fr = ResultKeys
                   /\ DOMAIN fr.scores = ScoreKeys
                   /\ fr.message = FieldOrNull(frame, "message", None)
                   /\ fr.timestamp = FieldOrNull(frame, "ts", NoneVal)
                   /\ \A k \in ResultKeys \ {"message", "timestamp", "scores"} :
                         fr[k] = FieldOrNull(DataOf(frame), DataKey(k), None)
                   /\ \A k \in ScoreKeys :
                         fr.scores[k] = FieldOrNull(DataOf(frame), DataKey(k), None)

\* The fields of the request payload the claim calls recognized.
RecognizedKeys ==
    {"prompt", "env_id", "where", "when", "metricFilters", "useVectorSearch"}

\* C18: reading a sent_request record while a case is open replaces the
\* case's request by the extraction of the record: prompt, env_id, where and
\* when of the payload (null when missing), metric_filters and
\* use_vector_search (an empty list and false when missing), and
\* additional_params, where every other key of the payload is found with its
\* value: no key of the payload is lost.
C18_NoRequestKeyLost ==
    (/\ lines # <<>>
     /\ HasEvent(Last(lines), "sent_request")
     /\ BeforeLast.current_test_case # <<>>) =>
        LET payload == FieldOrNull(Last(lines).v, "request", <<>>)
        IN  /\ pc # "raised"
            /\ current_test_case # <<>>
            /\ LET request == current_test_case[1].request
               IN  /\ DOMAIN request =
                         {"prompt", "env_id", "where", "when", "metric_filters",
                          "use_vector_search", "additional_params"}
                   /\ request.prompt = FieldOrNull(payload, "prompt", None)
                   /\ request.env_id = FieldOrNull(payload, "env_id", None)
                   /\ request.where = FieldOrNull(payload, "where", None)
                   /\ request.when = FieldOrNull(payload, "when", None)
                   /\ request.metric_filters = FieldOrNull(payload, "metricFilters", "[]")
                   /\ request.use_vector_search
                         = FieldOrNull(payload, "useVectorSearch", "False")
                   /\ \A k \in (DOMAIN payload) \ RecognizedKeys :
                         /\ k \in DOMAIN request.additional_params
                         /\ request.additional_params[k] = payload[k]

\* The case the last line was read into: the open case, or the test case that
\* connection_closed has just appended.
CaseAfterLast ==
    IF current_test_case # <<>> THEN current_test_case[1] ELSE Last(test_cases)

IsProgress(response) == response.status = "progress"

\* The progress messages of these responses: those with status "progress", in
\* order, without the status.
ProgressOf(responses) ==
    LET p == SelectSeq(responses, IsProgress)
    IN  [i \in 1..Len(p) |->
            [message |-> p[i].message, timestamp |-> p[i].timestamp,
             data |-> p[i].data]]

\* Every test case of the state: those of test_cases and the open one.
AllCases ==
    {test_cases[i] : i \in 1..Len(test_cases)}
    \cup {current_test_case[i] : i \in (1..Len(current_test_case)) \cap {1}}

\* C19: a frame record of the open case adds one entry at the end of the
\* case's responses, whatever its frame is (with the frame's status, message,
\* ts and data when the frame is an object); no other record read into a case
\* changes its responses; and in every test case progress_messages is the
\* sub-sequence of responses with status "progress", in order.
C19_ResponsesRecordEveryFrame ==
    /\ ReadFrameOfOpenCase =>
          LET before == BeforeLast.current_test_case[1]
              frame == Last(lines).v["frame"]
          IN  /\ current_test_case # <<>>
              /\ Len(current_test_case[1].responses) = Len(before.responses) + 1
              /\ IsPrefix(before.responses, current_test_case[1].responses)
              /\ frame.kind = "dict" =>
                    Last(current_test_case[1].responses) =
                        [status |-> FieldOrNull(frame.v, "status", None),
                         message |-> FieldOrNull(frame.v, "message", ""),
                         timestamp |-> FieldOrNull(frame.v, "ts", NoneVal),
                         data |-> FieldOrNull(frame.v, "data", NoneVal)]
    /\ (/\ lines # <<>>
        /\ ~ReadFrameOfOpenCase
        /\ ~HasEvent(Last(lines), "connection_opening")
        /\ BeforeLast.current_test_case # <<>>) =>
          CaseAfterLast.responses = BeforeLast.current_test_case[1].responses
    /\ \A tc \in AllCases : tc.progress_messages = ProgressOf(tc.responses)

\* C20: reading a client_error or client_timeout record while a case is open
\* raises nothing and adds one entry at the end of the case's errors: type
\* the event, message the record's error, or "Timeout occurred" when it has
\* none, and timestamp the record's ts.  Nothing else of the case changes, its
\* status included, and test_cases and run_info stay as they were.
C20_ClientErrorAppendsOneEntry ==
    (/\ lines # <<>>
     /\ (HasEvent(Last(lines), "client_error") \/ HasEvent(Last(lines), "client_timeout"))
     /\ BeforeLast.current_test_case # <<>>) =>
        LET before == BeforeLast.current_test_case[1]
            rec == Last(lines).v
        IN  /\ pc # "raised"
            /\ current_test_case =
                  <<[before EXCEPT !.errors =
                        Append(@, [type |-> rec["event"],
                                   message |-> FieldOrNull(rec, "error", "Timeout occurred"),
                                   timestamp |-> FieldOrNull(rec, "ts", NoneVal)])]>>
            /\ test_cases = BeforeLast.test_cases
            /\ run_info = BeforeLast.run_info

\* A case with a success frame, then a client_error with an error text and a
\* client_timeout without: two entries, and the status is still "success".
C20_Witness ==
    /\ Len(lines) = 4
    /\ HasEvent(lines[1], "connection_opening")
    /\ IsFrameRecordFor(lines[2], "A")
    /\ FrameStatusOf(lines[2]) = "success"
    /\ HasEvent(lines[3], "client_error")
    /\ HasEvent(lines[4], "client_timeout")
    /\ current_test_case # <<>>
    /\ current_test_case[1].status = "success"
    /\ Len(current_test_case[1].errors) = 2
    /\ current_test_case[1].errors[1].message = "boom"
    /\ current_test_case[1].errors[2].message = "Timeout occurred"
    /\ current_test_case[1].errors[2].type = "client_timeout"

-----------------------------------------------------------------------------
(* What the claims say of whole logs *)

\* C21: when the four lines of the example log have been read, test_cases
\* holds one test case, named T1, with status "success", duration 2.0 and
\* final_result.key_findings = "k", and no case is open; the summary saved
\* for this log has total_tests 1, successful_tests 1 and success_rate 1.0.
C21_ExampleLog ==
    lines = ExampleLog =>
        /\ pc # "raised"
        /\ current_test_case = <<>>
        /\ Len(test_cases) = 1
        /\ test_cases[1].name = "T1"
        /\ test_cases[1].status = "success"
        /\ test_cases[1].duration = Float(2)
        /\ test_cases[1].final_result.key_findings = "k"
        /\ pc = "saved" =>
              /\ summary[1].total_tests = 1
              /\ summary[1].successful_tests = 1
              /\ summary[1].success_rate = Number(1)

\* The example log read to its end and saved.
C21_Witness ==
    /\ pc = "saved"
    /\ lines = ExampleLog
    /\ summary[1].test_names = <<"T1">>
    /\ run_info.websocket_url = "ws://h/p"

\* The statuses of the responses that are "success" or "error", in order.
IsTerminal(response) == response.status \in {"success", "error"}
TerminalStatuses(responses) ==
    LET t == SelectSeq(responses, IsTerminal)
    IN  [i \in 1..Len(t) |-> t[i].status]

\* C26: a test case of test_cases to which a frame with status "success" or
\* "error" was applied has the status of the last such frame, whatever
\* client_error and client_timeout records were read for it: a later error
\* frame overrides a success and a later success an error, and a test case
\* can have status "success" and errors.
C26_LastTerminalFrameDecides ==
    \A i \in 1..Len(test_cases) :
        LET t == TerminalStatuses(test_cases[i].responses)
        IN  t # <<>> => test_cases[i].status = Last(t)

\* An error frame, then a success frame, then the close: the test case has
\* status "success" and the error entry of the error frame.
C26_Witness ==
    /\ Len(test_cases) = 1
    /\ TerminalStatuses(test_cases[1].responses) = <<"error", "success">>
    /\ test_cases[1].status = "success"
    /\ Len(test_cases[1].errors) = 1

\* C27: a test case of test_cases with status "error" has an error entry; one
\* with status "incomplete" has none, and no frame with status "success" or
\* "error" among its responses.
C27_StatusAgreesWithErrors ==
    \A i \in 1..Len(test_cases) :
        /\ test_cases[i].status = "error" => test_cases[i].errors # <<>>
        /\ test_cases[i].status = "incomplete" =>
              /\ test_cases[i].errors = <<>>
              /\ TerminalStatuses(test_cases[i].responses) = <<>>

\* A case closed after an error frame: "error", with the error entry of the
\* frame.
C27_Witness ==
    /\ Len(test_cases) = 1
    /\ test_cases[1].status = "error"
    /\ TerminalStatuses(test_cases[1].responses) = <<"error">>
    /\ Len(test_cases[1].errors) = 1
    /\ test_cases[1].errors[1].type = "execution_error"

\* C28: in the summary saved, successful_tests + failed_tests +
\* incomplete_tests = total_tests = the length of test_names = the number of
\* test cases, and test_names holds the names of the cases in the order in
\* which their connection_closed was read, a name as often as it was closed.
C28_SummaryCountsAndNames ==
    pc = "saved" =>
        LET s == summary[1]
            closed == ClosedCases(lines, <<>>)
        IN  /\ s.successful_tests + s.failed_tests + s.incomplete_tests = s.total_tests
            /\ s.total_tests = Len(s.test_names)
            /\ s.total_tests = Len(test_cases)
            /\ Len(s.test_names) = Len(closed)
            /\ \A i \in 1..Len(closed) : s.test_names[i] = closed[i].name

\* A closed after a success frame, then opened and closed again: the name
\* twice, one test successful and one incomplete.
C28_Witness ==
    /\ pc = "saved"
    /\ Len(lines) = 5
    /\ summary[1].test_names = <<"A", "A">>
    /\ summary[1].total_tests = 2
    /\ summary[1].successful_tests = 1
    /\ summary[1].incomplete_tests = 1

-----------------------------------------------------------------------------
(* What the claims say of the two copies *)

\* C24: saving never fails for want of the directory of the output file:
\* save_results makes it, in either copy.
C24_SaveCreatesParent == exc # "FileNotFoundError"

\* C29: on every log, parse_log_file of the base copy returns the run_info and
\* test_cases that parse_log_file of src/end-to-end returns, which are those
\* of the state, and generate_summary of the base copy gives the summary that
\* generate_summary of src/end-to-end gives; the summary saved is that one,
\* whichever copy saved.
C29_CopiesAgree ==
    /\ base_parse_log_file(lines) = parse_log_file(lines)
    /\ base_generate_summary(test_cases) = generate_summary(test_cases)
    /\ pc = "parsing" => Locals = base_parse_log_file(lines)
    /\ pc = "saved" =>
          /\ test_cases = base_parse_log_file(lines).test_cases
          /\ run_info = base_parse_log_file(lines).run_info
          /\ summary[1] = base_generate_summary(test_cases)
          /\ summary[1] = generate_summary(test_cases)

\* A log with a run header and a case whose request has where and top_k,
\* closed with a duration: saved with one test case, top_k among the
\* additional_params and not session_id.
C29_Witness ==
    /\ pc = "saved"
    /\ Len(lines) = 4
    /\ run_info # EmptyDict
    /\ Len(test_cases) = 1
    /\ test_cases[1].request # EmptyDict
    /\ DOMAIN test_cases[1].request.additional_params = {"top_k"}
    /\ test_cases[1].request.where = "w"
    /\ summary[1].total_duration = 2


-----------------------------------------------------------------------------
(* What the claims say of the runner's log *)

\* C22: the log writer forces a flush to storage on exactly every N-th
\* write, N being the --flush-every of the run: after any number of writes
\* the writes that ended with flush and fsync are the multiples of N.
C22_FlushEveryN ==
    runner_pc # "start" =>
        logger.fsyncs = {k \in 1..logger.n : k % args.flush_every = 0}


\* The case of a record of the log, null for the run header.
CaseOf(line) == Get(line.v, "case", None)

CaseNameSet == {CaseNames[i] : i \in 1..Len(CaseNames)}

\* The log holds the connection_opening, the connection_closed, of case c.
Opened(c) ==
    \E i \in 1..Len(log) : HasEvent(log[i], "connection_opening") /\ CaseOf(log[i]) = c
Closed(c) ==
    \E i \in 1..Len(log) : HasEvent(log[i], "connection_closed") /\ CaseOf(log[i]) = c

\* The log begins with the run header; a connection_opening comes first or
\* right after a connection_closed; every other record comes right after a
\* record of its own case that is no connection_closed.
Bracketed ==
    \A i \in 1..Len(log) :
        IF i = 1 THEN HasEvent(log[1], "run_header")
        ELSE IF HasEvent(log[i], "connection_opening")
        THEN HasEvent(log[i - 1], "run_header") \/ HasEvent(log[i - 1], "connection_closed")
        ELSE /\ ~HasEvent(log[i - 1], "run_header")
             /\ ~HasEvent(log[i - 1], "connection_closed")
             /\ CaseOf(log[i - 1]) = CaseOf(log[i])

\* C23: the runner executes the cases one at a time: in its log the events
\* of a case lie between its connection_opening and its connection_closed
\* with no event of another case among them, and every connection_opening
\* is eventually followed by the connection_closed of the same case, however
\* the case ended.
C23_OneCaseAtATime ==
    /\ []Bracketed
    /\ \A c \in CaseNameSet : Opened(c) ~> Closed(c)

\* The run of two cases is over: the first ended by an exception, the second
\* by a success frame.
C23_Witness ==
    /\ runner_pc = "done"
    /\ Len(log) = 9
    /\ HasEvent(log[2], "connection_opening") /\ CaseOf(log[2]) = "A"
    /\ HasEvent(log[3], "client_error")
    /\ HasEvent(log[4], "connection_closed") /\ CaseOf(log[4]) = "A"
    /\ HasEvent(log[5], "connection_opening") /\ CaseOf(log[5]) = "B"
    /\ IsFrameRecordFor(log[8], "B") /\ FrameStatusOf(log[8]) = "success"
    /\ HasEvent(log[9], "connection_closed") /\ CaseOf(log[9]) = "B"


\* C25: the log of a run of the runner that ran to completion is parsed
\* without an exception, and the test cases returned are the executed cases,
\* one each, in the order of execution, with their names.
C25_RunnerLogParses ==
    runner_pc = "done" =>
        LET results == parse_log_file(log)
        IN  /\ results.exc = None
            /\ Len(results.test_cases) = Len(args.test_cases)
            /\ \A i \in 1..Len(args.test_cases) :
                   results.test_cases[i].name = args.test_cases[i]


\* A frame record whose frame is a JSON object with status "success" or
\* "error".
IsTerminalFrameRecord(line) ==
    /\ "event" \notin DOMAIN line.v
    /\ "frame" \in DOMAIN line.v
    /\ FrameStatusOf(line) \in {"success", "error"}

\* A frame record.
IsFrameRecord(line) == "event" \notin DOMAIN line.v /\ "frame" \in DOMAIN line.v

\* In the log of every case a success or error frame is the last frame record
\* of the case, so there is at most one, and no frame record follows a
\* client_timeout: after either, the next record of the log is no frame.
StopsAfterTerminal ==
    \A i \in 2..Len(log) :
        (IsTerminalFrameRecord(log[i - 1]) \/ HasEvent(log[i - 1], "client_timeout"))
            => ~IsFrameRecord(log[i])

\* The runner has logged a frame that is no success or error frame of a JSON
\* object and is in the receive loop again.
OtherFrameGoesOn ==
    (/\ Len(log') = Len(log) + 1
     /\ IsFrameRecord(Last(log'))
     /\ ~IsTerminalFrameRecord(Last(log')))
        => runner_pc' = "receiving"

\* C30: within a case the runner stops receiving after the first success or
\* error frame of a JSON object and after the first receive timeout, and a
\* frame of any other kind never ends the receive loop.
C30_StopsOnTerminalFrameOnly ==
    /\ []StopsAfterTerminal
    /\ [][OtherFrameGoesOn]_vars

====
